---------------------------- MODULE Spec2Model ----------------------------
(***************************************************************************)
(* Model of ssd1306lib (src/oled.c): the interrupt-driven TWI transaction  *)
(* engine, the single-slot scheduler OLED_i2c_tx_shed, the busy lock and   *)
(* the callback-chained refresh sequencer.                                 *)
(*                                                                         *)
(* The machine state is split over the variables i2c (the static i2c_*     *)
(* variables), twi (the TWI peripheral), mem (the patchable command        *)
(* buffers and the frame buffer), oled (the OLED struct), hung (the        *)
(* handler spins forever or jumped through a null callback), g (history    *)
(* kept for the properties, never read by the code) and main (the          *)
(* main-line program counter and locals).  The interrupt handler is        *)
(* ISR_BLOCK, so one handler run, callback included, is one step.          *)
(***************************************************************************)
EXTENDS Integers, Sequences, FiniteSets, TLC

VARIABLES i2c, twi, mem, oled, hung, g, main

vars == <<i2c, twi, mem, oled, hung, g, main>>

(***************************************************************************)
(* Bounds of the model.                                                    *)
(***************************************************************************)
MaxPrefixLen == 2
MaxDataLen == 2
MaxWidth == 2
MaxReinit == 1
MaxIdleEvents == 1

\* the inputs the main-line program draws from
Widths == 1..MaxWidth
Heights == {32, 64}
Levels == {0, 128}
PixelX == {0, MaxWidth}
PixelY == {9, 40, 64}

(***************************************************************************)
(* Program constants.                                                      *)
(***************************************************************************)
I2C_STATE_IDLE == "IDLE"
I2C_STATE_STOP == "STOP"
I2C_STATE_SLAVEADDR == "SLAVEADDR"
I2C_STATE_WRITEPREFIX == "WRITEPREFIX"
I2C_STATE_WRITEBYTE == "WRITEBYTE"

\* i2c_prefix_count is declared uint8_t * (a 16-bit AVR pointer) and
\* i2c_data_count uint16_t: both counters wrap modulo 2^16.
CountMod == 65536

\* the 7-bit bus address the test passes to OLED_init (0b0111100)
DevAddr == 60

NULL == [buf |-> "NULL", off |-> 0]

\* a byte read through a pointer that has left its object
Undef == -1

_i2c_cmd_init == <<128, 141, 128, 20, 128, 175, 128, 129, 128, 255, 128, 167>>
_i2c_cmd_setpage == <<128, 0, 128, 16, 128, 176>>
_i2c_cmd_setbrightness == <<128, 129, 128, 255>>
_i2c_cmd_dataprefix == <<64>>

\* caller-owned buffers of a direct OLED_i2c_tx_shed client
RawPrefix == <<17, 18, 19, 20>>
RawData == <<33, 34, 35, 36>>

Ptr(b) == [buf |-> b, off |-> 0]

\* the object a pointer points into
Buf(m, b) ==
  CASE b = "init" -> _i2c_cmd_init
    [] b = "setpage" -> m.setpage
    [] b = "setbrightness" -> m.setbrightness
    [] b = "dataprefix" -> _i2c_cmd_dataprefix
    [] b = "fb" -> m.fb
    [] b = "rawprefix" -> RawPrefix
    [] b = "rawdata" -> RawData
    [] OTHER -> <<>>

\* *p
Deref(m, p) ==
  IF p.off < Len(Buf(m, p.buf)) THEN Buf(m, p.buf)[p.off + 1] ELSE Undef

\* p + 1
PtrInc(p) == [p EXCEPT !.off = (@ + 1) % CountMod]

\* the machine state as one value, and its assignment
Sys == [i2c |-> i2c, twi |-> twi, mem |-> mem, oled |-> oled, hung |-> hung, g |-> g]

SetSys(s) ==
  /\ i2c' = s.i2c
  /\ twi' = s.twi
  /\ mem' = s.mem
  /\ oled' = s.oled
  /\ hung' = s.hung
  /\ g' = s.g


(***************************************************************************)
(* Busy lock (oled.h): busy_lock = 1 is free, 0 is held.  g.holder names   *)
(* the operation that claimed it.                                          *)
(***************************************************************************)
OLED_unlock(s) == [s EXCEPT !.oled.busy_lock = 1, !.g.holder = "none"]

\* the atomic claim of OLED_spinlock, taken once the flag is seen free
OLED_lock(s, who) == [s EXCEPT !.oled.busy_lock = 0, !.g.holder = who]

\* OLED_i2c_tx_shed storing the callback before it tests the bus state
tx_shed_store_first(s, a) ==
  IF s.i2c.state = I2C_STATE_IDLE
    THEN [ret |-> TRUE,
          s |-> [s EXCEPT
                   !.i2c = [state |-> I2C_STATE_SLAVEADDR,
                            devaddr |-> (a.addr * 2) % 256,
                            prefix_ptr |-> a.prefix,
                            prefix_count |-> a.prefix_len,
                            data_ptr |-> a.bytes,
                            data_count |-> a.bytes_len,
                            is_fastfail |-> a.fastfail,
                            callback |-> a.end_cbk,
                            callback_args |-> a.cbk_args],
                   !.twi.active = TRUE,
                   !.g.plen = a.prefix_len,
                   !.g.dlen = a.bytes_len,
                   !.g.base = a.bytes.off,
                   !.g.evt = 0,
                   !.g.calls = 0,
                   !.g.np = 0,
                   !.g.nd = 0]]
    ELSE [ret |-> FALSE,
          s |-> [s EXCEPT !.i2c.is_fastfail = a.fastfail,
                          !.i2c.callback = a.end_cbk,
                          !.i2c.callback_args = a.cbk_args]]

\* OLED_i2c_tx_shed that forgets the START condition
tx_shed_no_start(s, a) ==
  IF s.i2c.state = I2C_STATE_IDLE
    THEN [ret |-> TRUE,
          s |-> [s EXCEPT
                   !.i2c = [state |-> I2C_STATE_SLAVEADDR,
                            devaddr |-> (a.addr * 2) % 256,
                            prefix_ptr |-> a.prefix,
                            prefix_count |-> a.prefix_len,
                            data_ptr |-> a.bytes,
                            data_count |-> a.bytes_len,
                            is_fastfail |-> a.fastfail,
                            callback |-> a.end_cbk,
                            callback_args |-> a.cbk_args],
                   !.g.plen = a.prefix_len,
                   !.g.dlen = a.bytes_len,
                   !.g.base = a.bytes.off,
                   !.g.evt = 0,
                   !.g.calls = 0,
                   !.g.np = 0,
                   !.g.nd = 0]]
    ELSE [ret |-> FALSE, s |-> s]

\* OLED_i2c_tx_shed keeping a rejected request for later unless fastfail
tx_shed_keep_unless_fastfail(s, a) ==
  IF s.i2c.state = I2C_STATE_IDLE
    THEN [ret |-> TRUE,
          s |-> [s EXCEPT
                   !.i2c = [state |-> I2C_STATE_SLAVEADDR,
                            devaddr |-> (a.addr * 2) % 256,
                            prefix_ptr |-> a.prefix,
                            prefix_count |-> a.prefix_len,
                            data_ptr |-> a.bytes,
                            data_count |-> a.bytes_len,
                            is_fastfail |-> a.fastfail,
                            callback |-> a.end_cbk,
                            callback_args |-> a.cbk_args],
                   !.twi.active = TRUE,
                   !.g.plen = a.prefix_len,
                   !.g.dlen = a.bytes_len,
                   !.g.base = a.bytes.off,
                   !.g.evt = 0,
                   !.g.calls = 0,
                   !.g.np = 0,
                   !.g.nd = 0]]
    ELSE IF a.fastfail
           THEN [ret |-> FALSE, s |-> s]
           ELSE [ret |-> FALSE,
                 s |-> [s EXCEPT !.i2c.prefix_ptr = a.prefix,
                                 !.i2c.prefix_count = a.prefix_len,
                                 !.i2c.data_ptr = a.bytes,
                                 !.i2c.data_count = a.bytes_len]]

(***************************************************************************)
(* OLED_i2c_tx_shed: the whole body runs in an ATOMIC_BLOCK.  a is the     *)
(* argument record.  On acceptance the history restarts for the new        *)
(* transaction.                                                            *)
(***************************************************************************)
tx_shed(s, a) ==
  IF s.i2c.state = I2C_STATE_IDLE
    THEN [ret |-> TRUE,
          s |-> [s EXCEPT
                   !.i2c = [state |-> I2C_STATE_SLAVEADDR,
                            devaddr |-> (a.addr * 2) % 256,
                            prefix_ptr |-> a.prefix,
                            prefix_count |-> a.prefix_len,
                            data_ptr |-> a.bytes,
                            data_count |-> a.bytes_len,
                            is_fastfail |-> a.fastfail,
                            callback |-> a.end_cbk,
                            callback_args |-> a.cbk_args],
                   !.twi.active = TRUE,
                   !.g.plen = a.prefix_len,
                   !.g.dlen = a.bytes_len,
                   !.g.base = a.bytes.off,
                   !.g.evt = 0,
                   !.g.calls = 0,
                   !.g.np = 0,
                   !.g.nd = 0]]
    ELSE [ret |-> FALSE, s |-> s]

\* while (!OLED_i2c_tx_shed(...)) { } executed inside the handler: nothing
\* can change i2c_state there, so a rejected submission spins forever
SpinShed(s, a) ==
  LET r == tx_shed(s, a)
  IN  IF r.ret THEN r.s ELSE [s EXCEPT !.hung = TRUE]

RECURSIVE BitOr(_, _)
BitOr(x, y) ==
  IF x = 0 THEN y
  ELSE IF y = 0 THEN x
  ELSE (IF x % 2 = 1 \/ y % 2 = 1 THEN 1 ELSE 0) + 2 * BitOr(x \div 2, y \div 2)

(***************************************************************************)
(* Completion callbacks.                                                   *)
(***************************************************************************)
OLED_cbk_empty(s) == s

OLED_cbk_unlock(s) == OLED_unlock(s)

\* lineptr computed after the cursor has been advanced
WritePageArgs_after_increment(s) ==
  [addr |-> s.oled.i2c_addr,
   prefix |-> Ptr("dataprefix"),
   prefix_len |-> Len(_i2c_cmd_dataprefix),
   bytes |-> [buf |-> "fb",
              off |-> (((s.oled.cur_page + 1) % 256) * s.oled.width) % CountMod],
   bytes_len |-> s.oled.width,
   end_cbk |-> "OLED_cbk_setwritepage",
   cbk_args |-> "oled",
   fastfail |-> TRUE]

\* the arguments OLED_cbk_writepage submits (lineptr is taken before the
\* cursor is advanced)
WritePageArgs(s) ==
  [addr |-> s.oled.i2c_addr,
   prefix |-> Ptr("dataprefix"),
   prefix_len |-> Len(_i2c_cmd_dataprefix),
   bytes |-> [buf |-> "fb", off |-> (s.oled.cur_page * s.oled.width) % CountMod],
   bytes_len |-> s.oled.width,
   end_cbk |-> "OLED_cbk_setwritepage",
   cbk_args |-> "oled",
   fastfail |-> TRUE]

\* the chain ended one page early
OLED_cbk_writepage_early(s) ==
  IF s.oled.cur_page + 1 >= s.oled.num_pages
    THEN OLED_unlock(s)
    ELSE SpinShed([s EXCEPT !.oled.cur_page = (@ + 1) % 256], WritePageArgs(s))

\* the terminal call also rewinding the cursor
OLED_cbk_writepage_rewind(s) ==
  IF s.oled.cur_page >= s.oled.num_pages
    THEN OLED_unlock([s EXCEPT !.oled.cur_page = 0])
    ELSE SpinShed([s EXCEPT !.oled.cur_page = (@ + 1) % 256], WritePageArgs(s))

OLED_cbk_writepage(s) ==
  IF s.oled.cur_page >= s.oled.num_pages
    THEN OLED_unlock(s)
    ELSE SpinShed([s EXCEPT !.oled.cur_page = (@ + 1) % 256], WritePageArgs(s))

\* _i2c_cmd_setpage[5] = 0xB0 | oled->cur_page
PatchSetPage(s) ==
  [s EXCEPT !.mem.setpage[Len(_i2c_cmd_setpage)] = BitOr(176, s.oled.cur_page)]

SetPageArgs(s) ==
  [addr |-> s.oled.i2c_addr,
   prefix |-> Ptr("setpage"),
   prefix_len |-> Len(_i2c_cmd_setpage),
   bytes |-> NULL,
   bytes_len |-> 0,
   end_cbk |-> "OLED_cbk_writepage",
   cbk_args |-> "oled",
   fastfail |-> TRUE]

OLED_cbk_setwritepage(s) ==
  LET s1 == PatchSetPage(s)
  IN  SpinShed(s1, SetPageArgs(s1))

\* (*i2c_callback)(i2c_callback_args); a call through the unset pointer
\* leaves the program
CallCallback(s) ==
  LET s1 == [s EXCEPT !.g.calls = @ + 1,
                      !.g.txlog = IF s.g.holder = "refresh"
                                    THEN Append(@, [buf |-> s.i2c.prefix_ptr.buf,
                                                    last |-> s.twi.TWDR,
                                                    base |-> s.g.base,
                                                    np |-> s.g.np,
                                                    n |-> s.g.nd])
                                    ELSE @]
  IN  CASE s.i2c.callback = "OLED_cbk_empty" -> OLED_cbk_empty(s1)
        [] s.i2c.callback = "OLED_cbk_unlock" -> OLED_cbk_unlock(s1)
        [] s.i2c.callback = "OLED_cbk_writepage" -> OLED_cbk_writepage(s1)
        [] s.i2c.callback = "OLED_cbk_setwritepage" -> OLED_cbk_setwritepage(s1)
        [] OTHER -> [s1 EXCEPT !.hung = TRUE]

\* TWDR = b; the byte goes out on the bus
LoadTWDR(s, b) == [s EXCEPT !.twi.TWDR = b]

\* the callback invoked before i2c_state is set to IDLE
ISR_callback_before_idle(s0) ==
  LET s == [s0 EXCEPT !.g.evt = @ + 1]
  IN  CASE s.i2c.state \in {I2C_STATE_IDLE, I2C_STATE_STOP} ->
             LET r == CallCallback([s EXCEPT !.twi.active = FALSE])
             IN  IF r.hung THEN r ELSE [r EXCEPT !.i2c.state = I2C_STATE_IDLE]
        [] s.i2c.state = I2C_STATE_SLAVEADDR ->
             [LoadTWDR(s, s.i2c.devaddr) EXCEPT
                !.i2c.state =
                  IF s.i2c.prefix_ptr = NULL /\ s.i2c.data_ptr = NULL
                    THEN I2C_STATE_STOP
                    ELSE IF s.i2c.prefix_ptr = NULL
                           THEN I2C_STATE_WRITEBYTE
                           ELSE I2C_STATE_WRITEPREFIX]
        [] s.i2c.state = I2C_STATE_WRITEPREFIX ->
             LET cnt == (s.i2c.prefix_count - 1) % CountMod
             IN  [LoadTWDR(s, Deref(s.mem, s.i2c.prefix_ptr)) EXCEPT
                    !.i2c.prefix_ptr = PtrInc(@),
                    !.i2c.prefix_count = cnt,
                    !.g.np = @ + 1,
                    !.i2c.state =
                      IF cnt = 0
                        THEN (IF s.i2c.data_ptr = NULL
                                THEN I2C_STATE_STOP
                                ELSE I2C_STATE_WRITEBYTE)
                        ELSE @]
        [] s.i2c.state = I2C_STATE_WRITEBYTE ->
             LET cnt == (s.i2c.data_count - 1) % CountMod
             IN  [LoadTWDR(s, Deref(s.mem, s.i2c.data_ptr)) EXCEPT
                    !.i2c.data_ptr = PtrInc(@),
                    !.i2c.data_count = cnt,
                    !.g.nd = @ + 1,
                    !.i2c.state = IF cnt = 0 THEN I2C_STATE_STOP ELSE @]

(***************************************************************************)
(* ISR(TWI_vect): one run of the handler for one hardware event.           *)
(***************************************************************************)
ISR(s0) ==
  LET s == [s0 EXCEPT !.g.evt = @ + 1]
  IN  CASE s.i2c.state \in {I2C_STATE_IDLE, I2C_STATE_STOP} ->
             CallCallback([s EXCEPT !.twi.active = FALSE,
                                    !.i2c.state = I2C_STATE_IDLE])
        [] s.i2c.state = I2C_STATE_SLAVEADDR ->
             [LoadTWDR(s, s.i2c.devaddr) EXCEPT
                !.i2c.state =
                  IF s.i2c.prefix_ptr = NULL /\ s.i2c.data_ptr = NULL
                    THEN I2C_STATE_STOP
                    ELSE IF s.i2c.prefix_ptr = NULL
                           THEN I2C_STATE_WRITEBYTE
                           ELSE I2C_STATE_WRITEPREFIX]
        [] s.i2c.state = I2C_STATE_WRITEPREFIX ->
             LET cnt == (s.i2c.prefix_count - 1) % CountMod
             IN  [LoadTWDR(s, Deref(s.mem, s.i2c.prefix_ptr)) EXCEPT
                    !.i2c.prefix_ptr = PtrInc(@),
                    !.i2c.prefix_count = cnt,
                    !.g.np = @ + 1,
                    !.i2c.state =
                      IF cnt = 0
                        THEN (IF s.i2c.data_ptr = NULL
                                THEN I2C_STATE_STOP
                                ELSE I2C_STATE_WRITEBYTE)
                        ELSE @]
        [] s.i2c.state = I2C_STATE_WRITEBYTE ->
             LET cnt == (s.i2c.data_count - 1) % CountMod
             IN  [LoadTWDR(s, Deref(s.mem, s.i2c.data_ptr)) EXCEPT
                    !.i2c.data_ptr = PtrInc(@),
                    !.i2c.data_count = cnt,
                    !.g.nd = @ + 1,
                    !.i2c.state = IF cnt = 0 THEN I2C_STATE_STOP ELSE @]


(***************************************************************************)
(* Initial values.                                                         *)
(***************************************************************************)
\* the statics of oled.c before any call: i2c_state is IDLE, the rest zero
I2cReset ==
  [state |-> I2C_STATE_IDLE, devaddr |-> 0, prefix_ptr |-> NULL,
   prefix_count |-> 0, data_ptr |-> NULL, data_count |-> 0,
   is_fastfail |-> FALSE, callback |-> "NULL", callback_args |-> "NULL"]

TwiReset == [active |-> FALSE, TWDR |-> 0]

MemReset ==
  [setpage |-> _i2c_cmd_setpage, setbrightness |-> _i2c_cmd_setbrightness,
   fb |-> <<>>]

\* the OLED struct before OLED_init has filled it
OledReset ==
  [width |-> 0, height |-> 0, busy_lock |-> 0, i2c_addr |-> 0,
   cur_page |-> 0, num_pages |-> 0]

HistReset ==
  [plen |-> 0, dlen |-> 0, base |-> 0, evt |-> 0, calls |-> 0, np |-> 0, nd |-> 0,
   holder |-> "none", txlog |-> <<>>, level |-> 0]

\* the main-line context: program counter, the last results of a submission
\* and of OLED_init, the level passed to OLED_cmd_setbrightness, and two notes
\* for the properties (a submission of the running operation was rejected;
\* a transaction was in flight when OLED_init was entered), and the number
\* of repeated OLED_init calls
MainReset ==
  [pc |-> "start", ret |-> FALSE, err |-> "none", level |-> 0,
   spun |-> FALSE, inflight |-> FALSE, inits |-> 0]

(***************************************************************************)
(* The interrupt: the peripheral raises TWINT after START and after every  *)
(* byte, and not after STOP.                                               *)
(***************************************************************************)
TWI_vect ==
  /\ twi.active
  /\ ~hung
  /\ \E s \in {ISR(Sys)} : SetSys(s)
  /\ UNCHANGED main

(***************************************************************************)
(* A direct client of the scheduler: main-line code that submits any       *)
(* request and polls nothing.                                              *)
(***************************************************************************)
\* a non-null buffer of length 0: the handler decrements the count before
\* testing it, so the count wraps and CountMod bytes are sent
ZeroLenBuffer(a) ==
  \/ a.prefix # NULL /\ a.prefix_len = 0
  \/ a.bytes # NULL /\ a.bytes_len = 0

\* the requests of the direct client: each buffer is absent (null pointer,
\* length 0, as at every call site of oled.c) or present with a length of
\* 0..Max; a request with a zero-length buffer carries nothing else
RawArgs ==
  {a \in [addr : {DevAddr},
          prefix : {NULL, Ptr("rawprefix")},
          prefix_len : 0..MaxPrefixLen,
          bytes : {NULL, Ptr("rawdata")},
          bytes_len : 0..MaxDataLen,
          end_cbk : {"OLED_cbk_empty"},
          cbk_args : {"NULL"},
          fastfail : BOOLEAN] :
     /\ a.prefix = NULL => a.prefix_len = 0
     /\ a.bytes = NULL => a.bytes_len = 0
     /\ ZeroLenBuffer(a) =>
          /\ a.fastfail
          /\ a.prefix = NULL \/ a.bytes = NULL}

Submit ==
  /\ main.pc = "raw"
  /\ ~hung
  /\ \E a \in RawArgs :
       \E r \in {tx_shed(Sys, a)} :
           /\ SetSys(r.s)
           /\ main' = [main EXCEPT !.ret = r.ret]

InitTx ==
  /\ i2c = I2cReset
  /\ twi = TwiReset
  /\ mem = MemReset
  /\ oled = OledReset
  /\ hung = FALSE
  /\ g = HistReset
  /\ main = [MainReset EXCEPT !.pc = "raw"]

NextTx == Submit \/ TWI_vect

SpecTx == InitTx /\ [][NextTx]_vars

FairSpecTx == SpecTx /\ WF_vars(TWI_vect)

(***************************************************************************)
(* The direct client with a peripheral that may also raise its interrupt   *)
(* while no transfer is active: the handler then runs its case             *)
(* I2C_STATE_IDLE.  Such events are counted by g.calls and capped.         *)
(***************************************************************************)
TWI_vect_idle ==
  /\ ~twi.active
  /\ i2c.state = I2C_STATE_IDLE
  /\ ~hung
  /\ g.calls <= MaxIdleEvents
  /\ \E s \in {ISR(Sys)} : SetSys(s)
  /\ UNCHANGED main

NextEvent == Submit \/ TWI_vect \/ TWI_vect_idle

SpecEvent == InitTx /\ [][NextEvent]_vars


(***************************************************************************)
(* OLED_init (__OLED_init, lines 241-262) as three main-line steps: the    *)
(* struct fields, I2C_init, the bring-up submission.                       *)
(***************************************************************************)
FbSize(w, h) == w * ((h + 7) \div 8)

\* lines 243-251; the caller's buffer has the minimum size
OLED_init_fields(s, w, h, buffer) ==
  [s EXCEPT !.oled = [width |-> w, height |-> h, busy_lock |-> 1,
                      i2c_addr |-> DevAddr, cur_page |-> 0, num_pages |-> 8],
            !.mem.fb = buffer,
            !.g.holder = "none"]

\* I2C_init: i2c_state = I2C_STATE_IDLE; writing TWCR with TWINT clear does
\* not cancel a byte the peripheral is sending
I2C_init(s) == [s EXCEPT !.i2c.state = I2C_STATE_IDLE]

InitArgs(s) ==
  [addr |-> s.oled.i2c_addr,
   prefix |-> Ptr("init"),
   prefix_len |-> Len(_i2c_cmd_init),
   bytes |-> NULL,
   bytes_len |-> 0,
   end_cbk |-> "OLED_cbk_empty",
   cbk_args |-> "NULL",
   fastfail |-> TRUE]

\* the first call of the program: OLED_init(&oled, w, h, fb, ...) on a
\* zeroed buffer
Boot ==
  /\ main.pc = "start"
  /\ \E w \in Widths, h \in Heights :
       \E s \in {OLED_init_fields(Sys, w, h, [i \in 1..FbSize(w, h) |-> 0])} : SetSys(s)
  /\ main' = [main EXCEPT !.pc = "init_253",
                          !.inflight = (i2c.state # I2C_STATE_IDLE)]

\* a later call of OLED_init on the same display and buffer
Reinit ==
  /\ main.pc = "idle"
  /\ ~hung
  /\ main.inits < MaxReinit
  /\ \E s \in {OLED_init_fields(Sys, oled.width, oled.height, mem.fb)} : SetSys(s)
  /\ main' = [main EXCEPT !.pc = "init_253",
                          !.inits = @ + 1,
                          !.inflight = (i2c.state # I2C_STATE_IDLE)]

Init_253 ==
  /\ main.pc = "init_253"
  /\ ~hung
  /\ \E s \in {I2C_init(Sys)} : SetSys(s)
  /\ main' = [main EXCEPT !.pc = "init_255"]

Init_255 ==
  /\ main.pc = "init_255"
  /\ ~hung
  /\ \E r \in {tx_shed(Sys, InitArgs(Sys))} :
         /\ SetSys(r.s)
         /\ main' = [main EXCEPT !.pc = "idle",
                                 !.ret = r.ret,
                                 !.err = IF r.ret THEN "OLED_EOK" ELSE "OLED_EBUSY"]

(***************************************************************************)
(* OLED_refresh (lines 229-236) with the inlined main-line call of         *)
(* OLED_cbk_setwritepage (lines 204-213).                                  *)
(***************************************************************************)
CallRefresh ==
  /\ main.pc \in {"idle", "locked"}
  /\ ~hung
  /\ main' = [main EXCEPT !.pc = "refresh_231", !.spun = FALSE]
  /\ UNCHANGED <<i2c, twi, mem, oled, hung, g>>

\* OLED_refresh entering its body without waiting for the lock
Refresh_231_no_wait ==
  /\ main.pc = "refresh_231"
  /\ ~hung
  /\ \E s \in {[OLED_lock(Sys, "refresh") EXCEPT !.g.txlog = <<>>]} : SetSys(s)
  /\ main' = [main EXCEPT !.pc = "refresh_233"]

\* OLED_spinlock(oled) gets the lock
Refresh_231 ==
  /\ main.pc = "refresh_231"
  /\ ~hung
  /\ oled.busy_lock = 1
  /\ \E s \in {[OLED_lock(Sys, "refresh") EXCEPT !.g.txlog = <<>>]} : SetSys(s)
  /\ main' = [main EXCEPT !.pc = "refresh_233"]

\* oled->cur_page = 0
Refresh_233 ==
  /\ main.pc = "refresh_233"
  /\ ~hung
  /\ \E s \in {[Sys EXCEPT !.oled.cur_page = 0]} : SetSys(s)
  /\ main' = [main EXCEPT !.pc = "setwritepage_207"]

Refresh_207 ==
  /\ main.pc = "setwritepage_207"
  /\ ~hung
  /\ \E s \in {PatchSetPage(Sys)} : SetSys(s)
  /\ main' = [main EXCEPT !.pc = "setwritepage_208"]

\* the submission tried once and its result ignored
Refresh_208_once ==
  /\ main.pc = "setwritepage_208"
  /\ ~hung
  /\ \E r \in {tx_shed(Sys, SetPageArgs(Sys))} :
         /\ SetSys(r.s)
         /\ main' = [main EXCEPT !.pc = "idle",
                                 !.ret = r.ret,
                                 !.spun = IF r.ret THEN @ ELSE TRUE]

\* one iteration of the main-line retry loop
Refresh_208 ==
  /\ main.pc = "setwritepage_208"
  /\ ~hung
  /\ \E r \in {tx_shed(Sys, SetPageArgs(Sys))} :
         /\ SetSys(r.s)
         /\ main' = [main EXCEPT !.pc = IF r.ret THEN "idle" ELSE @,
                                 !.ret = r.ret,
                                 !.spun = IF r.ret THEN @ ELSE TRUE]

(***************************************************************************)
(* OLED_cmd_setbrightness (lines 217-226).                                 *)
(***************************************************************************)
BrightnessArgs(s) ==
  [addr |-> s.oled.i2c_addr,
   prefix |-> Ptr("setbrightness"),
   prefix_len |-> Len(_i2c_cmd_setbrightness),
   bytes |-> NULL,
   bytes_len |-> 0,
   end_cbk |-> "OLED_cbk_unlock",
   cbk_args |-> "oled",
   fastfail |-> TRUE]

CallBrightness ==
  /\ main.pc \in {"idle", "locked"}
  /\ ~hung
  /\ \E level \in Levels :
       main' = [main EXCEPT !.pc = "setbrightness_219", !.level = level,
                            !.spun = FALSE]
  /\ UNCHANGED <<i2c, twi, mem, oled, hung, g>>

\* _i2c_cmd_setbrightness[3] = level, before the lock is taken
Brightness_219 ==
  /\ main.pc = "setbrightness_219"
  /\ ~hung
  /\ \E s \in {[Sys EXCEPT
                  !.mem.setbrightness[Len(_i2c_cmd_setbrightness)] = main.level]} :
       SetSys(s)
  /\ main' = [main EXCEPT !.pc = "setbrightness_220"]

\* the lock claimed without waiting for it to be free
Brightness_220_no_wait ==
  /\ main.pc = "setbrightness_220"
  /\ ~hung
  /\ \E s \in {OLED_lock(Sys, "brightness")} : SetSys(s)
  /\ main' = [main EXCEPT !.pc = "setbrightness_221"]

Brightness_220 ==
  /\ main.pc = "setbrightness_220"
  /\ ~hung
  /\ oled.busy_lock = 1
  /\ \E s \in {OLED_lock(Sys, "brightness")} : SetSys(s)
  /\ main' = [main EXCEPT !.pc = "setbrightness_221"]

\* one iteration of the retry loop; on acceptance g.level notes the level
\* this call was given
Brightness_221 ==
  /\ main.pc = "setbrightness_221"
  /\ ~hung
  /\ \E r \in {tx_shed(Sys, BrightnessArgs(Sys))} :
         /\ \E s \in {[r.s EXCEPT !.g.level = IF r.ret THEN main.level ELSE @]} :
              SetSys(s)
         /\ main' = [main EXCEPT !.pc = IF r.ret THEN "idle" ELSE @,
                                 !.ret = r.ret,
                                 !.spun = IF r.ret THEN @ ELSE TRUE]

(***************************************************************************)
(* OLED_WITH_SPINLOCK(&oled) { ... } in the main-line program, and drawing *)
(* with or without the lock (oled_test.c: "see what happens without lock").*)
(***************************************************************************)
WithSpinlock ==
  /\ main.pc = "idle"
  /\ ~hung
  /\ main' = [main EXCEPT !.pc = "with_spinlock"]
  /\ UNCHANGED <<i2c, twi, mem, oled, hung, g>>

WithSpinlock_enter ==
  /\ main.pc = "with_spinlock"
  /\ ~hung
  /\ oled.busy_lock = 1
  /\ \E s \in {OLED_lock(Sys, "main")} : SetSys(s)
  /\ main' = [main EXCEPT !.pc = "locked"]

WithSpinlock_leave ==
  /\ main.pc = "locked"
  /\ ~hung
  /\ \E s \in {OLED_unlock(Sys)} : SetSys(s)
  /\ main' = [main EXCEPT !.pc = "idle"]

Pow2(k) == IF k = 0 THEN 1 ELSE IF k = 1 THEN 2 ELSE IF k = 2 THEN 4
           ELSE IF k = 3 THEN 8 ELSE IF k = 4 THEN 16 ELSE IF k = 5 THEN 32
           ELSE IF k = 6 THEN 64 ELSE 128

BitOf(b, k) == (b \div Pow2(k)) % 2

\* OLED_put_pixel_ (oled.h): page-major, bit y%8 of byte (y/8)*width + x
OLED_put_pixel_(s, x, y, pixel_state) ==
  LET idx == (y \div 8) * s.oled.width + x + 1
      old == s.mem.fb[idx]
      new == IF pixel_state
               THEN (IF BitOf(old, y % 8) = 1 THEN old ELSE old + Pow2(y % 8))
               ELSE (IF BitOf(old, y % 8) = 1 THEN old - Pow2(y % 8) ELSE old)
  IN  [s EXCEPT !.mem.fb[idx] = new]

\* the bounds test written with > instead of >=
OLED_put_pixel_off_by_one(s, x, y, pixel_state) ==
  IF x > s.oled.width \/ y > s.oled.height
    THEN [err |-> "OLED_EBOUNDS", s |-> s]
    ELSE [err |-> "OLED_EOK", s |-> OLED_put_pixel_(s, x, y, pixel_state)]

OLED_put_pixel(s, x, y, pixel_state) ==
  IF x >= s.oled.width \/ y >= s.oled.height
    THEN [err |-> "OLED_EBOUNDS", s |-> s]
    ELSE [err |-> "OLED_EOK", s |-> OLED_put_pixel_(s, x, y, pixel_state)]

PutPixel ==
  /\ main.pc \in {"idle", "locked"}
  /\ ~hung
  /\ \E x \in PixelX, y \in PixelY, pixel_state \in BOOLEAN :
       \E r \in {OLED_put_pixel(Sys, x, y, pixel_state)} :
           /\ SetSys(r.s)
           /\ UNCHANGED main

(***************************************************************************)
(* The program: one display, initialised once, then any sequence of the    *)
(* library's operations.  SpecReinit is a program that calls OLED_init     *)
(* again.                                                                  *)
(***************************************************************************)
Init ==
  /\ i2c = I2cReset
  /\ twi = TwiReset
  /\ mem = MemReset
  /\ oled = OledReset
  /\ hung = FALSE
  /\ g = HistReset
  /\ main = MainReset

MainStep ==
  \/ Init_253
  \/ Init_255
  \/ Refresh_231
  \/ Refresh_233
  \/ Refresh_207
  \/ Refresh_208
  \/ Brightness_219
  \/ Brightness_220
  \/ Brightness_221
  \/ WithSpinlock_enter

Next ==
  \/ Boot
  \/ Init_253
  \/ Init_255
  \/ CallRefresh
  \/ Refresh_231
  \/ Refresh_233
  \/ Refresh_207
  \/ Refresh_208
  \/ CallBrightness
  \/ Brightness_219
  \/ Brightness_220
  \/ Brightness_221
  \/ WithSpinlock
  \/ WithSpinlock_enter
  \/ WithSpinlock_leave
  \/ PutPixel
  \/ TWI_vect

Spec == Init /\ [][Next]_vars

\* the handler runs whenever the peripheral has an event, and the processor
\* keeps executing the operation the main line is in
FairSpec == Spec /\ WF_vars(TWI_vect) /\ WF_vars(MainStep)

\* a program that only initialises and refreshes, and may call OLED_init
\* again at any point between two calls
NextReinit ==
  \/ Boot
  \/ Reinit
  \/ Init_253
  \/ Init_255
  \/ CallRefresh
  \/ Refresh_231
  \/ Refresh_233
  \/ Refresh_207
  \/ Refresh_208
  \/ TWI_vect

SpecReinit == Init /\ [][NextReinit]_vars

(***************************************************************************)
(* Properties of the transaction engine.                                   *)
(***************************************************************************)
\* what a caller of the scheduler may pass: the direct client's requests and
\* the requests of the library's own call sites
AnyArgs == RawArgs \cup {WritePageArgs(Sys), SetPageArgs(Sys)}

\* C1: whenever the bus state is not Idle, OLED_i2c_tx_shed, whatever its
\* arguments and whoever calls it, returns false and leaves the bus state
\* and every field of the in-flight request (and everything else) unchanged.
C1_BusyRejects ==
  i2c.state # I2C_STATE_IDLE =>
    \A a \in AnyArgs :
      /\ tx_shed(Sys, a).ret = FALSE
      /\ tx_shed(Sys, a).s = Sys

\* a submission was rejected while a transaction is in flight
C1_Witness ==
  /\ i2c.state \in {I2C_STATE_WRITEPREFIX, I2C_STATE_WRITEBYTE}
  /\ main.pc = "raw"
  /\ main.ret = FALSE

\* C2: for every accepted submission, whatever its pointers and lengths,
\* the completion callback is invoked exactly once, on the
\* (prefixLen + dataLen + 2)-th hardware event after acceptance.
C2_CallbackAtLenPlus2 ==
  /\ i2c.state # I2C_STATE_IDLE =>
       g.calls = 0 /\ g.evt < g.plen + g.dlen + 2
  /\ g.calls > 0 =>
       g.calls = 1 /\ g.evt = g.plen + g.dlen + 2

\* C6: under weak fairness of the interrupt handler every accepted
\* transaction reaches Stop, and then the bus is Idle again with the
\* completion callback invoked.
C6_TxCompletes ==
  /\ (i2c.state = I2C_STATE_SLAVEADDR) ~> (i2c.state = I2C_STATE_STOP)
  /\ (i2c.state = I2C_STATE_SLAVEADDR) ~>
       (i2c.state = I2C_STATE_IDLE /\ g.calls = 1)

\* a transaction has completed and its callback has run
C6_Witness ==
  /\ main.pc = "raw"
  /\ i2c.state = I2C_STATE_IDLE
  /\ g.calls = 1
  /\ g.evt > 2


(***************************************************************************)
(* Properties of the refresh sequencer and the lock.  g.txlog lists the    *)
(* transactions that completed since the running (or last) refresh took    *)
(* the lock: the prefix buffer, the last byte loaded into TWDR, the offset *)
(* of the data pointer at submission and the bytes sent.                   *)
(***************************************************************************)
IsSel(e) == e.buf = "setpage"

IsPage(e) == e.buf = "dataprefix"

PageIdx == {i \in 1..Len(g.txlog) : IsPage(g.txlog[i])}

SelIdx == {i \in 1..Len(g.txlog) : IsSel(g.txlog[i])}

\* the number of page transfers logged before entry i
PagesBefore(i) == Cardinality({j \in PageIdx : j < i})

SelsBefore(i) == Cardinality({j \in SelIdx : j < i})

\* a refresh has run to the release of its lock
RefreshDone == g.holder # "refresh" /\ g.txlog # <<>>

RefreshTxInFlight ==
  i2c.state # I2C_STATE_IDLE /\ i2c.prefix_ptr.buf \in {"setpage", "dataprefix"}

BrightnessTxInFlight ==
  i2c.state # I2C_STATE_IDLE /\ i2c.prefix_ptr.buf = "setbrightness"

FbRead(k) == IF k < Len(mem.fb) THEN mem.fb[k + 1] ELSE Undef

C3_Log ==
  /\ \A i \in PageIdx :
       /\ g.txlog[i].base = PagesBefore(i) * oled.width
       /\ g.txlog[i].np = 1
       /\ g.txlog[i].n = oled.width
       /\ i > 1
       /\ IsSel(g.txlog[i - 1])
       /\ g.txlog[i - 1].last % 16 = PagesBefore(i)
  /\ RefreshDone => Cardinality(PageIdx) = oled.num_pages

C3_Bytes ==
  /\ (i2c.state = I2C_STATE_WRITEPREFIX /\ i2c.prefix_ptr.buf = "dataprefix"
        /\ g'.np = g.np + 1)
       => twi'.TWDR = 64
  /\ (i2c.state = I2C_STATE_WRITEBYTE /\ i2c.data_ptr.buf = "fb"
        /\ g'.nd = g.nd + 1)
       => twi'.TWDR = FbRead(g.base + g.nd)

\* C3: one refresh transmits the pages 0..num_pages-1 once each in increasing
\* order; each transfer directly follows a select-page command whose last
\* byte has the page as low nibble, and carries the one prefix byte and
\* width bytes, each equal to the frame buffer byte of that page at the
\* moment it is loaded.
C3_PagesInOrder == [](C3_Log) /\ [][C3_Bytes]_vars

\* a refresh has completed after a pixel drawn into the buffer went out
C3_Witness ==
  /\ RefreshDone
  /\ Cardinality(PageIdx) = 8
  /\ \E i \in PageIdx : g.txlog[i].last = 2

\* C4: one complete refresh of an 8-page display puts exactly 8 select-page
\* commands on the bus, with nibbles 0..7 in order, each followed by a page
\* transfer of width bytes, and no select-page command for page num_pages.
C4_EightSelects ==
  (oled.height = 64 /\ oled.num_pages = 8) =>
    /\ \A i \in SelIdx : g.txlog[i].last % 16 = SelsBefore(i)
    /\ \A i \in SelIdx : g.txlog[i].last % 16 < oled.num_pages
    /\ RefreshDone =>
         /\ Cardinality(SelIdx) = 8
         /\ \A i \in SelIdx :
              /\ i < Len(g.txlog)
              /\ IsPage(g.txlog[i + 1])
              /\ g.txlog[i + 1].n = oled.width

\* C5: the transactions of OLED_refresh and of OLED_cmd_setbrightness never
\* interleave: while a refresh holds the lock no brightness transaction is
\* on the bus, and while a brightness change holds it no transaction of a
\* refresh is.
C5_NoInterleave ==
  /\ g.holder = "refresh" => ~BrightnessTxInFlight
  /\ g.holder = "brightness" => ~RefreshTxInFlight
  /\ BrightnessTxInFlight => g.holder = "brightness"

\* OLED_cmd_setbrightness was called during a page transfer and waits
C5_Witness ==
  /\ g.holder = "refresh"
  /\ main.pc = "setbrightness_220"
  /\ i2c.state = I2C_STATE_WRITEBYTE
  /\ PagesBefore(Len(g.txlog) + 1) \in 1..6

C7_Release ==
  (g.holder = "refresh" /\ g'.holder # "refresh") =>
    /\ i2c.state = I2C_STATE_STOP
    /\ i2c.callback = "OLED_cbk_writepage"
    /\ oled.cur_page >= oled.num_pages
    /\ Cardinality(PageIdx) = oled.num_pages
    /\ oled'.busy_lock = 1
    /\ i2c'.state = I2C_STATE_IDLE
    /\ ~twi'.active

C7_Held ==
  /\ g.holder = "refresh" => oled.busy_lock = 0
  /\ RefreshTxInFlight => g.holder = "refresh"

\* C7: the lock a refresh has taken stays held through every intermediate
\* callback and is released only by the terminal callback of the chain,
\* which submits nothing; with fair hardware events it is eventually
\* released, and no transaction of that refresh is on the bus afterwards.
C7_LockThroughChain ==
  /\ [](C7_Held)
  /\ [][C7_Release]_vars
  /\ (g.holder = "refresh") ~> (RefreshDone /\ oled.busy_lock = 1)

\* the terminal callback has just released the lock of a refresh
C7_Witness ==
  /\ RefreshDone
  /\ oled.busy_lock = 1
  /\ i2c.state = I2C_STATE_IDLE
  /\ i2c.callback = "OLED_cbk_writepage"
  /\ main.pc = "idle"

\* C8: the lock of a refresh is released by the completion callback of the
\* transfer-page transaction of the last page (num_pages - 1), which
\* submits nothing further.
C8_ReleasedByLastPage ==
  [][(g.holder = "refresh" /\ g'.holder # "refresh") =>
       /\ i2c.state = I2C_STATE_STOP
       /\ i2c.prefix_ptr.buf = "dataprefix"
       /\ g.base = (oled.num_pages - 1) * oled.width
       /\ i2c'.state = I2C_STATE_IDLE]_vars

\* C9: OLED_init returns OLED_EBUSY exactly when a transaction was already
\* in flight when it was called, and OLED_EOK exactly when the bring-up
\* transaction was accepted.
C9_BusyIffInFlight ==
  (main.pc = "idle" /\ main.err # "none") =>
    /\ main.err = "OLED_EBUSY" <=> main.inflight
    /\ main.err = "OLED_EOK" <=> main.ret

C10_FirstAccepted ==
  (main.pc = "setwritepage_208" /\ main'.pc # "setwritepage_208") =>
    /\ i2c'.state = I2C_STATE_SLAVEADDR
    /\ i2c'.prefix_ptr = Ptr("setpage")
    /\ i2c'.prefix_count = 6
    /\ i2c'.callback = "OLED_cbk_writepage"
    /\ mem'.setpage[6] = 176
    /\ SelIdx = {} /\ PageIdx = {}

C10_FirstOnBus ==
  \A i \in SelIdx : SelsBefore(i) = 0 => g.txlog[i].last = 176

\* C10: when the first select-page submission of a refresh is rejected
\* because another transaction is in flight, the main-line loop retries it
\* until it is accepted (it terminates under fair hardware events), and the
\* first transaction of the refresh is the select-page command of page 0.
C10_RetryFirstStep ==
  /\ (main.pc = "setwritepage_208" /\ main.spun) ~> (main.pc = "idle")
  /\ [][C10_FirstAccepted]_vars
  /\ [](C10_FirstOnBus)

\* the select-page command of page 0 was accepted after a rejection, the
\* bring-up transaction having completed under the refresh's lock
C10_Witness ==
  /\ main.pc = "idle"
  /\ main.spun
  /\ g.holder = "refresh"
  /\ i2c.state = I2C_STATE_SLAVEADDR
  /\ i2c.prefix_ptr = Ptr("setpage")
  /\ Len(g.txlog) = 1
  /\ g.txlog[1].buf = "init"

(***************************************************************************)
(* Properties of the calling discipline of OLED_refresh.                   *)
(***************************************************************************)
\* the main line called OLED_refresh from inside OLED_WITH_SPINLOCK
RefreshCalledWithLock == main.pc = "refresh_231" /\ g.holder = "main"

\* C11: a call of OLED_refresh by a caller that holds the display's lock
\* submits the first select-page transaction and returns; it does not wait
\* forever for the lock.
C11_RefreshWithLockHeld == RefreshCalledWithLock ~> (main.pc = "idle")

C11_Stuck == RefreshCalledWithLock => main'.pc = "refresh_231"

C11_Takes ==
  (main.pc = "refresh_231" /\ main'.pc # "refresh_231") =>
    /\ oled.busy_lock = 1
    /\ oled'.busy_lock = 0
    /\ g'.holder = "refresh"

C11_Returns ==
  (main.pc = "setwritepage_208" /\ main'.pc = "idle") =>
    /\ g.holder = "refresh"
    /\ i2c'.state = I2C_STATE_SLAVEADDR
    /\ i2c'.prefix_ptr = Ptr("setpage")

\* C11 as amended: OLED_refresh takes the lock itself.  Called while the
\* caller does not hold the lock, it waits until the lock is free, claims
\* it, submits the first select-page transaction and returns; called by a
\* caller that holds the lock it waits forever.
C11_RefreshTakesLock ==
  /\ (main.pc = "refresh_231" /\ g.holder # "main") ~> (main.pc = "idle")
  /\ [][C11_Stuck]_vars
  /\ [][C11_Takes]_vars
  /\ [][C11_Returns]_vars

\* OLED_refresh was called under OLED_WITH_SPINLOCK and the bus has gone
\* quiet: nothing is left that could release the lock
C11_Witness ==
  /\ RefreshCalledWithLock
  /\ oled.busy_lock = 0
  /\ i2c.state = I2C_STATE_IDLE
  /\ ~twi.active

(***************************************************************************)
(* Properties of the drawing layer.                                        *)
(***************************************************************************)
\* the coordinates a caller may pass (uint8_t), sampled around the limits
CoordX == 0..(MaxWidth + 1) \cup {255}

CoordY == {0, 7, 8, 9, 31, 32, 40, 63, 64, 255}

PixelIndex(x, y) == (y \div 8) * oled.width + x + 1

\* C12: OLED_put_pixel with x >= width or y >= height returns OLED_EBOUNDS
\* and leaves every byte of the frame buffer unchanged; with coordinates in
\* range it returns OLED_EOK, the bit of the addressed pixel then equals the
\* requested state and no other bit of the buffer has changed.
C12_PutPixel ==
  oled.width > 0 =>
    \A x \in CoordX, y \in CoordY, pixel_state \in BOOLEAN :
       LET r == OLED_put_pixel(Sys, x, y, pixel_state)
           idx == PixelIndex(x, y)
       IN  IF x >= oled.width \/ y >= oled.height
             THEN r.err = "OLED_EBOUNDS" /\ r.s = Sys
             ELSE /\ r.err = "OLED_EOK"
                  /\ idx \in DOMAIN mem.fb
                  /\ BitOf(r.s.mem.fb[idx], y % 8) = (IF pixel_state THEN 1 ELSE 0)
                  /\ \A k \in 0..7 :
                       k # y % 8 => BitOf(r.s.mem.fb[idx], k) = BitOf(mem.fb[idx], k)
                  /\ \A i \in DOMAIN mem.fb : i # idx => r.s.mem.fb[i] = mem.fb[i]
                  /\ r.s = [Sys EXCEPT !.mem.fb = r.s.mem.fb]

\* pixel (0, 9) of a 32-row display has been set and nothing else drawn
C12_Witness ==
  /\ oled.height = 32
  /\ main.pc = "idle"
  /\ mem.fb[oled.width + 1] = 2
  /\ \A i \in DOMAIN mem.fb : i # oled.width + 1 => mem.fb[i] = 0


(***************************************************************************)
(* Properties of the bus state variable.                                   *)
(***************************************************************************)
\* a step of the interrupt handler: the peripheral had an event, the main
\* line did not move and nothing was drawn
HandlerStep == twi.active /\ main' = main /\ mem'.fb = mem.fb

\* the write of the atomic section of OLED_i2c_tx_shed
ShedStep ==
  /\ i2c.state = I2C_STATE_IDLE
  /\ i2c'.state = I2C_STATE_SLAVEADDR
  /\ twi'.active

\* C13: i2c_state changes only in a step of the interrupt handler or in the
\* Idle to SlaveAddress write of OLED_i2c_tx_shed; no other operation, the
\* initialisation of a display during a transaction included, changes it.
C13_StateOnlyInHandlerOrShed ==
  [][i2c'.state # i2c.state => (HandlerStep \/ ShedStep)]_vars


(***************************************************************************)
(* Properties of the handler's transition relation, for the direct client  *)
(* (its callback submits nothing, so g.evt grows exactly in handler steps).*)
(***************************************************************************)
PrefixPresent == i2c.prefix_ptr # NULL

DataPresent == i2c.data_ptr # NULL

\* byte k of the prefix and of the data buffer of the request in flight
PrefixByte(k) == Deref(mem, [buf |-> i2c.prefix_ptr.buf, off |-> k])

DataByte(k) == Deref(mem, [buf |-> i2c.data_ptr.buf, off |-> g.base + k])

C14_Transition ==
  (twi.active /\ g'.evt = g.evt + 1) =>
    /\ i2c.state = I2C_STATE_SLAVEADDR =>
         /\ twi'.TWDR = i2c.devaddr
         /\ i2c'.state = IF ~PrefixPresent /\ ~DataPresent THEN I2C_STATE_STOP
                         ELSE IF ~PrefixPresent THEN I2C_STATE_WRITEBYTE
                         ELSE I2C_STATE_WRITEPREFIX
    /\ i2c.state = I2C_STATE_WRITEPREFIX =>
         /\ twi'.TWDR = PrefixByte(g.np)
         /\ g'.np = g.np + 1
         /\ i2c'.prefix_count = (i2c.prefix_count - 1) % CountMod
         /\ i2c'.state = IF i2c'.prefix_count # 0 THEN I2C_STATE_WRITEPREFIX
                         ELSE IF DataPresent THEN I2C_STATE_WRITEBYTE
                         ELSE I2C_STATE_STOP
    /\ i2c.state = I2C_STATE_WRITEBYTE =>
         /\ twi'.TWDR = DataByte(g.nd)
         /\ g'.nd = g.nd + 1
         /\ i2c'.data_count = (i2c.data_count - 1) % CountMod
         /\ i2c'.state = IF i2c'.data_count # 0 THEN I2C_STATE_WRITEBYTE
                         ELSE I2C_STATE_STOP
    /\ i2c.state = I2C_STATE_STOP =>
         /\ i2c'.state = I2C_STATE_IDLE
         /\ g'.np = g.np /\ g'.nd = g.nd

\* the bytes sent so far are a prefix of address, prefix[0..plen),
\* data[0..dlen), and all of it once the transaction has stopped
C14_Bytes ==
  /\ g.np <= g.plen
  /\ g.nd <= g.dlen
  /\ g.nd > 0 => g.np = g.plen
  /\ (i2c.state = I2C_STATE_STOP \/ g.calls > 0) =>
       g.np = g.plen /\ g.nd = g.dlen

\* C14: the handler follows the transition relation SlaveAddress ->
\* Stop | WriteByte | WritePrefix, WritePrefix -> WritePrefix until the
\* remaining count is zero, then WriteByte | Stop, WriteByte -> WriteByte
\* until the remaining count is zero, then Stop, Stop -> Idle; every event
\* before the stop loads one byte, and the bytes of a transaction are the
\* address, prefix[0..prefixLen), data[0..dataLen) in this order.
C14_TransitionsAndBytes == [][C14_Transition]_vars /\ [](C14_Bytes)


(***************************************************************************)
(* Properties of the display geometry.                                     *)
(***************************************************************************)
\* C15: after OLED_init with any height the page count is height/8, a
\* finished refresh has transmitted exactly height/8 pages, and every page
\* transfer reads frame buffer bytes below width * ceil(height/8) only.
C15_PageCountFromHeight ==
  oled.height > 0 =>
    /\ oled.num_pages = oled.height \div 8
    /\ RefreshDone => Cardinality(PageIdx) = oled.height \div 8
    /\ \A i \in PageIdx :
         g.txlog[i].base + g.txlog[i].n <= FbSize(oled.width, oled.height)


(***************************************************************************)
(* Properties of the page cursor.                                          *)
(***************************************************************************)
\* a transfer-page transaction has just been submitted by the handler
PageSubmitted ==
  /\ i2c.state = I2C_STATE_STOP
  /\ i2c'.state = I2C_STATE_SLAVEADDR
  /\ i2c'.prefix_ptr = Ptr("dataprefix")
  /\ i2c'.data_ptr.buf = "fb"

PageTxInFlight ==
  i2c.state # I2C_STATE_IDLE /\ i2c.prefix_ptr.buf = "dataprefix"

C16_CursorWrite ==
  (oled.height > 0 /\ oled'.cur_page # oled.cur_page) =>
    /\ g.holder = "refresh"
    /\ oled.busy_lock = 0
    /\ \/ main.pc = "refresh_233" /\ oled'.cur_page = 0
       \/ /\ PageSubmitted
          /\ oled'.cur_page = oled.cur_page + 1
          /\ i2c'.data_ptr.off = oled.cur_page * oled.width

C16_Reset ==
  (main.pc = "refresh_233" /\ main'.pc # "refresh_233") =>
    g.holder = "refresh" /\ oled.busy_lock = 0 /\ oled'.cur_page = 0

C16_PerPage == PageSubmitted => oled'.cur_page = oled.cur_page + 1

\* under the lock of a refresh the cursor counts the page transfers
\* submitted so far
C16_Count ==
  (g.holder = "refresh" /\ main.pc # "refresh_233") =>
    oled.cur_page = Cardinality(PageIdx) + (IF PageTxInFlight THEN 1 ELSE 0)

\* C16: after initialisation cur_page is written only while a refresh holds
\* the lock: it is reset to 0 only after OLED_refresh has taken the lock, it
\* grows by exactly 1 with every page transfer submitted, and it never
\* changes while the lock is free.
C16_CursorUnderLock ==
  /\ [][C16_CursorWrite]_vars
  /\ [][C16_Reset]_vars
  /\ [][C16_PerPage]_vars
  /\ [](C16_Count)

\* the cursor in the middle of a refresh, after an earlier refresh
C16_Witness ==
  /\ g.holder = "refresh"
  /\ oled.cur_page = 3
  /\ PageTxInFlight
  /\ Cardinality(PageIdx) = 2
  /\ i2c.data_ptr.off > 2 * oled.width


(***************************************************************************)
(* Properties of the submissions made from completion callbacks.           *)
(***************************************************************************)
\* the handler is about to call a callback that submits: OLED_cbk_setwritepage
\* always does, OLED_cbk_writepage unless the cursor is at the page count
ChainingCallbackDue ==
  /\ i2c.state \in {I2C_STATE_IDLE, I2C_STATE_STOP}
  /\ \/ i2c.callback = "OLED_cbk_setwritepage"
     \/ i2c.callback = "OLED_cbk_writepage" /\ oled.cur_page < oled.num_pages

C17_Accepted ==
  (ChainingCallbackDue /\ HandlerStep) =>
    /\ ~hung'
    /\ i2c'.state = I2C_STATE_SLAVEADDR
    /\ twi'.active
    /\ g'.evt = 0
    /\ i2c'.prefix_ptr =
         IF i2c.callback = "OLED_cbk_setwritepage" THEN Ptr("setpage")
         ELSE Ptr("dataprefix")

\* C17: a submission made by a completion callback, inside the handler, is
\* accepted on its first attempt: the handler has set the bus state to Idle
\* before the call, so the retry loops of OLED_cbk_writepage and
\* OLED_cbk_setwritepage never iterate there and the handler never hangs.
C17_InHandlerAccepted == [][C17_Accepted]_vars /\ [](~hung)

\* the handler has just submitted the transfer of the last page
C17_Witness ==
  /\ ~hung
  /\ i2c.state = I2C_STATE_SLAVEADDR
  /\ i2c.prefix_ptr = Ptr("dataprefix")
  /\ i2c.callback = "OLED_cbk_setwritepage"
  /\ oled.cur_page = oled.num_pages
  /\ g.evt = 0


(***************************************************************************)
(* Properties of the brightness command.  g.level is the level passed to   *)
(* the OLED_cmd_setbrightness call whose transaction was accepted last.    *)
(***************************************************************************)
\* the handler is loading the last byte of the brightness command
BrightnessLastByte ==
  /\ HandlerStep
  /\ i2c.state = I2C_STATE_WRITEPREFIX
  /\ i2c.prefix_ptr = [buf |-> "setbrightness",
                       off |-> Len(_i2c_cmd_setbrightness) - 1]

C18_LevelSent == BrightnessLastByte => twi'.TWDR = g.level

C18_BufferStable ==
  mem'.setbrightness # mem.setbrightness =>
    /\ ~BrightnessTxInFlight
    /\ g.holder \notin {"refresh", "brightness"}

\* C18: the last byte of every brightness transaction is the level passed
\* to the call that submitted it, and _i2c_cmd_setbrightness is not modified
\* while a transaction sending it is in flight or while another operation
\* holds the lock.
C18_LevelOfSubmittingCall ==
  [][C18_LevelSent]_vars /\ [][C18_BufferStable]_vars


(***************************************************************************)
(* Properties of the completion notification.  g.calls counts the calls    *)
(* through i2c_callback since the last accepted submission; a call through *)
(* the unset pointer sets hung.                                            *)
(***************************************************************************)
\* C19: whatever the submissions and the hardware events, an event that
\* finds the bus state Idle included, the handler calls only the callback of
\* an accepted submission that has not been notified yet: it never calls
\* through the unset i2c_callback and never notifies a transaction twice.
C19_NotifyOncePending == ~hung /\ g.calls <= 1


(***************************************************************************)
(* Properties of the fast-fail flag.                                       *)
(***************************************************************************)
\* the machine state without the stored flag
EraseFlag(s) == [s EXCEPT !.i2c.is_fastfail = FALSE]

\* the same request in the other mode
OtherMode(a) == [a EXCEPT !.fastfail = ~@]

\* the same machine state with the other flag stored
OtherFlag(s) == [s EXCEPT !.i2c.is_fastfail = ~@]

\* C20: the fast-fail flag has no influence.  From every reachable state,
\* OLED_i2c_tx_shed called with a request and with the same request in the
\* other mode returns the same result and leaves the same bus state and
\* request fields, the stored flag apart; a rejected call, in either mode,
\* returns at once with nothing changed; and every later handler run loads
\* the same byte, makes the same transition and calls the same callback
\* whatever flag is stored.
C20_FastfailNoInfluence ==
  /\ \A a \in AnyArgs :
       LET r1 == tx_shed(Sys, a)
           r2 == tx_shed(Sys, OtherMode(a))
       IN  /\ r1.ret = r2.ret
           /\ EraseFlag(r1.s) = EraseFlag(r2.s)
           /\ r1.ret <=> i2c.state = I2C_STATE_IDLE
           /\ ~r1.ret => r1.s = Sys /\ r2.s = Sys
  /\ twi.active => EraseFlag(ISR(OtherFlag(Sys))) = EraseFlag(ISR(Sys))

\* a request submitted without fast-fail is being sent, and a submission
\* made meanwhile was rejected
C20_Witness ==
  /\ main.pc = "raw"
  /\ ~i2c.is_fastfail
  /\ i2c.state = I2C_STATE_WRITEBYTE
  /\ g.np = MaxPrefixLen
  /\ g.nd = 1
  /\ main.ret = FALSE


=============================================================================
